---- MODULE Spec2Model ----
(***************************************************************************)
(* The snapshot / versioning engine of CutReady                            *)
(* (src-tauri/src/engine/versioning.rs): a git object store with commits,  *)
(* timeline refs, HEAD, the label table, the prev-tip marker, the stash    *)
(* slot and the working directory.                                         *)
(***************************************************************************)
EXTENDS Integers, Sequences, FiniteSets, TLC

VARIABLES commits,   \* object store: commits[id] = [tree, parent, message, time]
          refs,      \* ref files: full ref name -> commit id
          HEAD,      \* .git/HEAD: [sym |-> TRUE, name |-> ref] or [sym |-> FALSE, oid |-> id]
          labels,    \* .git/cutready-timeline-labels: slug -> label
          prev_tip,  \* .git/cutready-prev-tip: None or commit id
          stash,     \* .git/cutready-stash: [has |-> BOOLEAN, tree |-> tree id]
          wd,        \* the project directory (without .git)
          now,       \* wall clock, in seconds
          last,      \* the last operation invoked, the case it met, whether it succeeded
          returned,  \* the commit ids commit and restore have returned
          inflight   \* command layer: per invocation slot, the command it is running

vars == <<commits, refs, HEAD, labels, prev_tip, stash, wd, now, last, returned, inflight>>

-----------------------------------------------------------------------------
(* Bounds *)

\* commits in the store and seconds on the clock, for the full machine
MaxCommits == 2
MaxTime == 1

\* commits in the store for the narrower machines below
ForkMaxCommits == 3
HistMaxCommits == 4
NavMaxCommits == 2
LinMaxCommits == 5
DirMaxCommits == 2
TlMaxCommits == 3
SwMaxCommits == 2
RestMaxCommits == 3
DetMaxCommits == 3
RewMaxCommits == 2
CountMaxCommits == 3
FrameMaxCommits == 2

\* the command layer: commits in the store and invocations that can be running
CmdMaxCommits == 3
MaxInFlight == 2

-----------------------------------------------------------------------------
(* Object ids.  A commit id is its index in the store; content addressing  *)
(* is kept by create_commit returning the index of an identical commit.    *)

None == 0

\* An object id that parses but names no object of the store.
AbsentOid == 0 - 1

\* str::parse::<gix::ObjectId>()
ParseOid(s) == IF s.hex THEN [ok |-> TRUE, oid |-> s.oid] ELSE [ok |-> FALSE, oid |-> None]

\* ObjectId::to_string()
OidToString(id) == [hex |-> TRUE, oid |-> id]

-----------------------------------------------------------------------------
(* Directories and trees.  A directory maps entry names (sequences of      *)
(* characters) to files or sub-directories; a tree id is the tree itself.  *)

File(data) == [kind |-> "file", data |-> data, ents |-> <<>>]
Dir(ents) == [kind |-> "dir", data |-> 0, ents |-> ents]

EmptyDir == [n \in {} |-> File(0)]

\* name.starts_with('.')
IsHidden(name) == Len(name) > 0 /\ name[1] = "."

RECURSIVE build_tree_from_dir(_)
build_tree_from_dir(dir) ==
    [n \in {m \in DOMAIN dir : ~IsHidden(m)} |->
        IF dir[n].kind = "dir"
        THEN [mode |-> "tree", oid |-> build_tree_from_dir(dir[n].ents)]
        ELSE [mode |-> "blob", oid |-> dir[n].data]]

clean_working_dir(dir) == [n \in {m \in DOMAIN dir : IsHidden(m)} |-> dir[n]]

RECURSIVE write_tree_to_dir(_, _)
write_tree_to_dir(tree, dir) ==
    [n \in (DOMAIN dir) \cup (DOMAIN tree) |->
        IF n \in DOMAIN tree
        THEN IF tree[n].mode = "tree"
             THEN Dir(write_tree_to_dir(tree[n].oid,
                        IF n \in DOMAIN dir /\ dir[n].kind = "dir"
                        THEN dir[n].ents ELSE EmptyDir))
             ELSE File(tree[n].oid)
        ELSE dir[n]]

\* Contents the application or the user writes into the project directory.
NameA == <<"a">>
NameD == <<"d">>
NameG == <<"g">>
NameDotH == <<".", "h">>

Dir1 == (NameA :> File(1))
Dir2 == (NameA :> File(2)) @@ (NameDotH :> File(7))
           @@ (NameD :> Dir((NameG :> File(1)) @@ (NameDotH :> File(7))))

WdChoices == {Dir1, Dir2}

\* a file where Dir2 has a directory, and an empty directory
Dir3 == (NameD :> File(3)) @@ (NameG :> Dir(EmptyDir))

DirChoices == WdChoices \cup {Dir3}

\* Dir2 without its hidden entries
Dir4 == (NameA :> File(2)) @@ (NameD :> Dir((NameG :> File(1))))

\* two folders that differ in hidden entries only
DetChoices == {Dir2, Dir4}

\* what a directory listing shows of a folder once the entries whose name
\* starts with a dot are left out, at every depth
RECURSIVE VisibleOf(_)
VisibleOf(dir) ==
    [n \in {m \in DOMAIN dir : ~IsHidden(m)} |->
        IF dir[n].kind = "dir" THEN Dir(VisibleOf(dir[n].ents)) ELSE dir[n]]

-----------------------------------------------------------------------------
(* Strings are sequences of one-character strings, so that slugs, labels   *)
(* and ref names are computed the way the code computes them.              *)

\* Byte order of the characters a slug can hold.
CharOrder ==
    <<"-", "0", "1", "2", "3", "4", "5", "6", "7", "8", "9",
      "a", "e", "f", "i", "k", "m", "n", "o", "p", "r", "x">>

Ord(c) == CHOOSE i \in 1..Len(CharOrder) : CharOrder[i] = c

RECURSIVE StrLess(_, _)
StrLess(a, b) ==
    IF b = <<>> THEN FALSE
    ELSE IF a = <<>> THEN TRUE
    ELSE IF a[1] = b[1] THEN StrLess(Tail(a), Tail(b))
    ELSE Ord(a[1]) < Ord(b[1])

UpperToLower == ("E" :> "e") @@ ("M" :> "m") @@ ("X" :> "x")

to_lowercase(c) == IF c \in DOMAIN UpperToLower THEN UpperToLower[c] ELSE c

is_alphanumeric(c) ==
    \/ c \in DOMAIN UpperToLower
    \/ c \in {CharOrder[i] : i \in 2..Len(CharOrder)}

\* char::is_whitespace, over the characters of the model
Whitespace == {" "}

RECURSIVE TrimStart(_, _)
TrimStart(str, chars) ==
    IF str # <<>> /\ str[1] \in chars THEN TrimStart(Tail(str), chars) ELSE str

RECURSIVE TrimEnd(_, _)
TrimEnd(str, chars) ==
    IF str # <<>> /\ str[Len(str)] \in chars
    THEN TrimEnd(SubSeq(str, 1, Len(str) - 1), chars) ELSE str

\* str::trim()
trim(str) == TrimEnd(TrimStart(str, Whitespace), Whitespace)

slugify_timeline_name(name) ==
    LET lowered == [i \in 1..Len(trim(name)) |-> to_lowercase(trim(name)[i])]
        replaced == [i \in 1..Len(lowered) |->
                        IF ~is_alphanumeric(lowered[i]) /\ lowered[i] # "-"
                        THEN "-" ELSE lowered[i]]
    IN  TrimEnd(TrimStart(replaced, {"-"}), {"-"})

DigitChars == <<"0", "1", "2", "3", "4", "5", "6", "7", "8", "9">>

TwoDigits(n) == <<DigitChars[(n \div 10) + 1], DigitChars[(n % 10) + 1]>>

\* chrono::Utc::now().format("%H%M%S")
FormatHHMMSS(t) ==
    TwoDigits((t \div 3600) % 24) \o TwoDigits((t \div 60) % 60) \o TwoDigits(t % 60)

ForkSlug(t) == <<"f", "o", "r", "k", "-">> \o FormatHHMMSS(t)

MAIN_BRANCH == <<"m", "a", "i", "n">>
RefsHeads == <<"refs/heads/">>
TIMELINE_PREFIX == RefsHeads \o <<"timeline/">>
MainRef == RefsHeads \o MAIN_BRANCH

TimelineRef(slug) == TIMELINE_PREFIX \o slug

\* gix refuses a ref whose last path component is empty
ValidRefName(ref) == Len(ref) > Len(TIMELINE_PREFIX)

StartsWith(str, prefix) ==
    Len(str) >= Len(prefix) /\ SubSeq(str, 1, Len(prefix)) = prefix

StripPrefix(str, prefix) == SubSeq(str, Len(prefix) + 1, Len(str))

\* the name a listed timeline resolves to in navigate, switch and the graph
RefOfName(name) == IF name = MAIN_BRANCH THEN MainRef ELSE TimelineRef(name)

\* Labels the user gives to timelines and forks.
LabelExp == <<"E", "x", "p">>
LabelMain == <<" ", "M", "a", "i", "n">>
LabelBlank == <<" ">>

Labels == {LabelExp}

ForkLabels == {LabelExp}

\* labels for the timeline operations: a plain one and one whose slug is main
TlLabels == {LabelExp, LabelMain}

LabelNewDirection == <<"New direction">>
LabelMainDisplay == <<"Main">>

-----------------------------------------------------------------------------
(* The repository as a value, and the helpers that read it.                *)

St ==
    [commits |-> commits, refs |-> refs, HEAD |-> HEAD, labels |-> labels,
     prev_tip |-> prev_tip, stash |-> stash, wd |-> wd]

Symbolic(name) == [sym |-> TRUE, name |-> name, oid |-> None]
Detached(oid) == [sym |-> FALSE, name |-> <<>>, oid |-> oid]

NoStash == [has |-> FALSE, tree |-> EmptyDir]

Res(s, ok, ret) == [st |-> s, ok |-> ok, ret |-> ret]

\* repo.find_commit(oid).is_ok()
find_commit(s, oid) == oid \in 1..Len(s.commits)

\* repo.head_commit(): the commit HEAD resolves to, None when there is none
head_commit(s) ==
    IF s.HEAD.sym
    THEN IF s.HEAD.name \in DOMAIN s.refs THEN s.refs[s.HEAD.name] ELSE None
    ELSE IF find_commit(s, s.HEAD.oid) THEN s.HEAD.oid ELSE None

RECURSIVE is_ancestor(_, _, _)
is_ancestor(s, ancestor, descendant) ==
    IF descendant = None THEN FALSE
    ELSE IF descendant = ancestor THEN TRUE
    ELSE is_ancestor(s, ancestor, s.commits[descendant].parent)

\* the first-parent walk shared by list_versions and count_commits_on_ref
RECURSIVE FirstParentChain(_, _)
FirstParentChain(s, oid) ==
    IF oid = None THEN <<>>
    ELSE <<oid>> \o FirstParentChain(s, s.commits[oid].parent)

list_versions(s) ==
    LET chain == FirstParentChain(s, head_commit(s))
    IN  [i \in 1..Len(chain) |->
            [id |-> chain[i], message |-> s.commits[chain[i]].message]]

\* count_commits_on_ref counting from the head whatever the ref
count_from_head(s, ref) ==
    IF ref \in DOMAIN s.refs THEN Len(FirstParentChain(s, head_commit(s))) ELSE 0

count_commits_on_ref(s, ref) ==
    IF ref \in DOMAIN s.refs THEN Len(FirstParentChain(s, s.refs[ref])) ELSE 0

\* None for a detached HEAD, else the ref name after refs/heads/
get_current_branch_name(s) ==
    IF s.HEAD.sym
    THEN [some |-> TRUE,
          name |-> IF StartsWith(s.HEAD.name, RefsHeads)
                   THEN StripPrefix(s.HEAD.name, RefsHeads) ELSE s.HEAD.name]
    ELSE [some |-> FALSE, name |-> <<>>]

load_prev_tip(s) == s.prev_tip

is_rewound(s) == s.prev_tip # None

has_stash(s) == s.stash.has

has_unsaved_changes(s) ==
    IF head_commit(s) = None THEN TRUE
    ELSE build_tree_from_dir(s.wd) # s.commits[head_commit(s)].tree

\* repo.references().prefixed(TIMELINE_PREFIX): the refs in name order
RECURSIVE SortedRefs(_)
SortedRefs(R) ==
    IF R = {} THEN <<>>
    ELSE LET m == CHOOSE x \in R : \A y \in R \ {x} : StrLess(x, y)
         IN  <<m>> \o SortedRefs(R \ {m})

PrefixedRefs(s) ==
    SortedRefs({r \in DOMAIN s.refs : StartsWith(r, TIMELINE_PREFIX)})

\* list_timelines before the detached-HEAD pass
ListedTimelines(s) ==
    LET active == get_current_branch_name(s)
        hasMain == MainRef \in DOMAIN s.refs
        mainPart ==
            IF hasMain
            THEN <<[name |-> MAIN_BRANCH, label |-> LabelMainDisplay,
                    is_active |-> active.some /\ active.name = MAIN_BRANCH,
                    snapshot_count |-> count_commits_on_ref(s, MainRef),
                    color_index |-> 0]>>
            ELSE <<>>
        pre == PrefixedRefs(s)
        tlPart ==
            [i \in 1..Len(pre) |->
                LET slug == StripPrefix(pre[i], TIMELINE_PREFIX)
                IN  [name |-> slug,
                     label |-> IF slug \in DOMAIN s.labels THEN s.labels[slug] ELSE slug,
                     is_active |-> active.some /\
                                   (active.name = pre[i] \/ active.name = <<"timeline/">> \o slug),
                     snapshot_count |-> count_commits_on_ref(s, pre[i]),
                     color_index |-> (IF hasMain THEN 1 ELSE 0) + i - 1]]
        found == mainPart \o tlPart
    IN  IF found = <<>> /\ head_commit(s) # None
        THEN <<[name |-> MAIN_BRANCH, label |-> LabelMainDisplay, is_active |-> TRUE,
                snapshot_count |-> Len(FirstParentChain(s, head_commit(s))),
                color_index |-> 0]>>
        ELSE found

\* the ref a listed timeline resolves to and the commit it points at
TimelineTip(s, name) ==
    IF RefOfName(name) \in DOMAIN s.refs THEN s.refs[RefOfName(name)] ELSE None

MinIndex(S) == CHOOSE i \in S : \A j \in S : i <= j

\* the timeline the detached-HEAD pass marks: the first whose tip is head,
\* else the first whose tip has head as an ancestor; 0 when there is none
DetachedActiveIndex(s, tls, head) ==
    LET exact == {i \in 1..Len(tls) :
                     TimelineTip(s, tls[i].name) # None /\ TimelineTip(s, tls[i].name) = head}
        above == {i \in 1..Len(tls) :
                     /\ TimelineTip(s, tls[i].name) # None
                     /\ is_ancestor(s, head, TimelineTip(s, tls[i].name))}
    IN  IF exact # {} THEN MinIndex(exact)
        ELSE IF above # {} THEN MinIndex(above) ELSE 0

\* the detached-HEAD pass of list_timelines
MarkDetachedActive(s, tls, head) ==
    IF ~get_current_branch_name(s).some
       /\ (\A i \in 1..Len(tls) : ~tls[i].is_active)
       /\ head # None /\ DetachedActiveIndex(s, tls, head) # 0
    THEN [tls EXCEPT ![DetachedActiveIndex(s, tls, head)].is_active = TRUE]
    ELSE tls

list_timelines(s) == MarkDetachedActive(s, ListedTimelines(s), head_commit(s))

-----------------------------------------------------------------------------
(* The graph builder.                                                      *)

GraphNode(s, oid, name, lane, is_head) ==
    [id |-> oid, message |-> s.commits[oid].message,
     timestamp |-> s.commits[oid].time, timeline |-> name,
     parents |-> IF s.commits[oid].parent = None THEN <<>>
                 ELSE <<s.commits[oid].parent>>,
     lane |-> lane, is_head |-> is_head]

\* one first-parent walk of get_timeline_graph, stopping at a seen commit;
\* head is None in the prev-tip walk, which never marks a node as head
RECURSIVE WalkChain(_, _, _, _, _, _)
WalkChain(s, oid, seen, name, lane, head) ==
    IF oid = None \/ oid \in seen THEN <<>>
    ELSE <<GraphNode(s, oid, name, lane, head # None /\ head = oid)>>
         \o WalkChain(s, s.commits[oid].parent, seen \cup {oid}, name, lane, head)

NodeIds(nodes) == {nodes[k].id : k \in 1..Len(nodes)}

RECURSIVE WalkTimelines(_, _, _, _)
WalkTimelines(s, tls, i, nodes) ==
    IF i > Len(tls) THEN nodes
    ELSE LET ref == RefOfName(tls[i].name)
             tip == IF ref \in DOMAIN s.refs THEN s.refs[ref] ELSE head_commit(s)
         IN  WalkTimelines(s, tls, i + 1,
                 nodes \o WalkChain(s, tip, NodeIds(nodes), tls[i].name,
                                    tls[i].color_index, head_commit(s)))

\* nodes.sort_by(|a, b| b.timestamp.cmp(&a.timestamp)): stable, newest first
RECURSIVE SortByTimestampDesc(_)
SortByTimestampDesc(nodes) ==
    IF nodes = <<>> THEN <<>>
    ELSE LET newest == CHOOSE i \in 1..Len(nodes) :
                          /\ \A j \in 1..Len(nodes) : nodes[j].timestamp <= nodes[i].timestamp
                          /\ \A j \in 1..(i - 1) : nodes[j].timestamp < nodes[i].timestamp
         IN  <<nodes[newest]>>
             \o SortByTimestampDesc([k \in 1..(Len(nodes) - 1) |->
                                        IF k < newest THEN nodes[k] ELSE nodes[k + 1]])

\* timelines.iter().find(|t| t.is_active): its index, 0 when there is none
ActiveTimelineIndex(tls) ==
    IF \E i \in 1..Len(tls) : tls[i].is_active
    THEN MinIndex({i \in 1..Len(tls) : tls[i].is_active}) ELSE 0

\* the prev-tip walk: the rewound commits, attributed to the active timeline
WalkPrevTip(s, nodes, name, lane) ==
    IF load_prev_tip(s) # None
    THEN nodes \o WalkChain(s, load_prev_tip(s), NodeIds(nodes), name, lane, None)
    ELSE nodes

\* the head node is attributed to the active timeline
AttributeHead(nodes, head, name, lane) ==
    [k \in 1..Len(nodes) |->
        IF head # None /\ nodes[k].id = head /\ nodes[k].timeline # name
        THEN [nodes[k] EXCEPT !.timeline = name, !.lane = lane]
        ELSE nodes[k]]

\* get_timeline_graph given the listed timelines and the index of the active one
GraphOf(s, tls, a) ==
    IF a # 0
    THEN SortByTimestampDesc(
             AttributeHead(WalkPrevTip(s, WalkTimelines(s, tls, 1, <<>>),
                                       tls[a].name, tls[a].color_index),
                           head_commit(s), tls[a].name, tls[a].color_index))
    ELSE SortByTimestampDesc(WalkPrevTip(s, WalkTimelines(s, tls, 1, <<>>), MAIN_BRANCH, 0))

get_timeline_graph(s) ==
    GraphOf(s, list_timelines(s), ActiveTimelineIndex(list_timelines(s)))

-----------------------------------------------------------------------------
(* The operations.  Each takes the repository and its inputs and yields    *)
(* the repository afterwards, whether it succeeded, and its return value.  *)

\* checkout_version writing the tree over the folder as it is
checkout_without_clean(s, commit_id) ==
    LET p == ParseOid(commit_id)
    IN  IF ~p.ok \/ ~find_commit(s, p.oid) THEN Res(s, FALSE, None)
        ELSE Res([s EXCEPT !.wd = write_tree_to_dir(s.commits[p.oid].tree, s.wd)],
                 TRUE, None)

\* checkout_version leaving HEAD on the commit it checks out
checkout_moves_head(s, commit_id) ==
    LET p == ParseOid(commit_id)
    IN  IF ~p.ok \/ ~find_commit(s, p.oid) THEN Res(s, FALSE, None)
        ELSE Res([s EXCEPT !.wd = write_tree_to_dir(s.commits[p.oid].tree,
                                                    clean_working_dir(s.wd)),
                           !.HEAD = Detached(p.oid)],
                 TRUE, None)

checkout_version(s, commit_id) ==
    LET p == ParseOid(commit_id)
    IN  IF ~p.ok \/ ~find_commit(s, p.oid) THEN Res(s, FALSE, None)
        ELSE Res([s EXCEPT !.wd = write_tree_to_dir(s.commits[p.oid].tree,
                                                    clean_working_dir(s.wd))],
                 TRUE, None)

\* an object store that hands out a fresh id for every commit written
commit_oid_fresh(s, c) == Len(s.commits) + 1

\* the id of the commit object with these fields: content addressed
CommitOid(s, c) ==
    IF \E i \in 1..Len(s.commits) : s.commits[i] = c
    THEN CHOOSE i \in 1..Len(s.commits) : s.commits[i] = c
    ELSE Len(s.commits) + 1

\* repo.write_object(&commit)
write_commit(s, c) ==
    IF CommitOid(s, c) > Len(s.commits) THEN Append(s.commits, c) ELSE s.commits

\* repo.reference(name, target, PreviousValue::MustNotExist, ..): the refs
\* afterwards; an existing ref with another target is an error
reference_must_not_exist(s, ref, target) ==
    IF ~ValidRefName(ref) THEN [ok |-> FALSE, refs |-> s.refs]
    ELSE IF ref \in DOMAIN s.refs
         THEN [ok |-> s.refs[ref] = target, refs |-> s.refs]
         ELSE [ok |-> TRUE, refs |-> (ref :> target) @@ s.refs]

save_timeline_label(s, slug, label) == (slug :> label) @@ s.labels

remove_timeline_label(s, slug) ==
    [k \in (DOMAIN s.labels) \ {slug} |-> s.labels[k]]

\* reset_branch_ref always names its branch under refs/heads/
reset_branch_ref(s, branch_name, target) ==
    ((RefsHeads \o branch_name) :> target) @@ s.refs

NoLabel == [some |-> FALSE, val |-> <<>>]
SomeLabel(l) == [some |-> TRUE, val |-> l]

\* commit_snapshot returning the head when the folder holds nothing new
commit_skips_unchanged(s, message, fork_label, t) ==
    LET forking == load_prev_tip(s) # None
        parent == head_commit(s)
        c == [tree |-> build_tree_from_dir(s.wd), parent |-> parent,
              message |-> message, time |-> t]
        commit_id == CommitOid(s, c)
        s1 == [s EXCEPT !.commits = write_commit(s, c)]
        \* commit_as(.., "HEAD", ..): the edit of HEAD is dereferenced; without a
        \* parent the ref edited must not exist yet
        editOk == \/ parent # None
                  \/ s.HEAD.sym /\ s.HEAD.name \notin DOMAIN s.refs
        s2 == IF s.HEAD.sym
              THEN [s1 EXCEPT !.refs = (s.HEAD.name :> commit_id) @@ s.refs]
              ELSE [s1 EXCEPT !.HEAD = Detached(commit_id)]
        fork_slug == ForkSlug(t)
        label == IF fork_label.some /\ trim(fork_label.val) # <<>>
                 THEN trim(fork_label.val) ELSE LabelNewDirection
        fork_ref == TIMELINE_PREFIX \o fork_slug
        s3 == [s2 EXCEPT !.refs = reference_must_not_exist(s2, fork_ref, commit_id).refs]
        s4 == [s3 EXCEPT !.labels = save_timeline_label(s3, fork_slug, label)]
        s5 == [s4 EXCEPT !.refs = reset_branch_ref(s4, MAIN_BRANCH, load_prev_tip(s))]
        s6 == [s5 EXCEPT !.HEAD = Symbolic(fork_ref), !.prev_tip = None]
    IN  IF parent # None /\ c.tree = s.commits[parent].tree THEN Res(s, TRUE, parent)
        ELSE IF ~editOk THEN Res(s1, FALSE, None)
        ELSE IF forking THEN Res(s6, TRUE, commit_id)
        ELSE Res(s2, TRUE, commit_id)

commit_snapshot(s, message, fork_label, t) ==
    LET forking == load_prev_tip(s) # None
        parent == head_commit(s)
        c == [tree |-> build_tree_from_dir(s.wd), parent |-> parent,
              message |-> message, time |-> t]
        commit_id == CommitOid(s, c)
        s1 == [s EXCEPT !.commits = write_commit(s, c)]
        \* commit_as(.., "HEAD", ..): the edit of HEAD is dereferenced; without a
        \* parent the ref edited must not exist yet
        editOk == \/ parent # None
                  \/ s.HEAD.sym /\ s.HEAD.name \notin DOMAIN s.refs
        s2 == IF s.HEAD.sym
              THEN [s1 EXCEPT !.refs = (s.HEAD.name :> commit_id) @@ s.refs]
              ELSE [s1 EXCEPT !.HEAD = Detached(commit_id)]
        fork_slug == ForkSlug(t)
        label == IF fork_label.some /\ trim(fork_label.val) # <<>>
                 THEN trim(fork_label.val) ELSE LabelNewDirection
        fork_ref == TIMELINE_PREFIX \o fork_slug
        s3 == [s2 EXCEPT !.refs = reference_must_not_exist(s2, fork_ref, commit_id).refs]
        s4 == [s3 EXCEPT !.labels = save_timeline_label(s3, fork_slug, label)]
        s5 == [s4 EXCEPT !.refs = reset_branch_ref(s4, MAIN_BRANCH, load_prev_tip(s))]
        s6 == [s5 EXCEPT !.HEAD = Symbolic(fork_ref), !.prev_tip = None]
    IN  IF ~editOk THEN Res(s1, FALSE, None)
        ELSE IF forking THEN Res(s6, TRUE, commit_id)
        ELSE Res(s2, TRUE, commit_id)


\* commit_snapshot up to the commit on HEAD (l.40-73): the first read of
\* prev-tip, the tree, the parent and commit_as; done tells whether the call
\* has returned: on an error, or when the first read found no prev-tip
commit_to_head(s, message, t) ==
    LET forking == load_prev_tip(s) # None
        parent == head_commit(s)
        c == [tree |-> build_tree_from_dir(s.wd), parent |-> parent,
              message |-> message, time |-> t]
        commit_id == CommitOid(s, c)
        s1 == [s EXCEPT !.commits = write_commit(s, c)]
        editOk == \/ parent # None
                  \/ s.HEAD.sym /\ s.HEAD.name \notin DOMAIN s.refs
        s2 == IF s.HEAD.sym
              THEN [s1 EXCEPT !.refs = (s.HEAD.name :> commit_id) @@ s.refs]
              ELSE [s1 EXCEPT !.HEAD = Detached(commit_id)]
    IN  IF ~editOk THEN [r |-> Res(s1, FALSE, None), done |-> TRUE]
        ELSE [r |-> Res(s2, TRUE, commit_id), done |-> ~forking]

\* commit_snapshot inside "if forking" (l.75-106): the second read of
\* prev-tip, whose unwrap panics when the file is gone, then the fork
commit_fork(s, commit_id, fork_label, t) ==
    LET fork_slug == ForkSlug(t)
        label == IF fork_label.some /\ trim(fork_label.val) # <<>>
                 THEN trim(fork_label.val) ELSE LabelNewDirection
        fork_ref == TIMELINE_PREFIX \o fork_slug
        s3 == [s EXCEPT !.refs = reference_must_not_exist(s, fork_ref, commit_id).refs]
        s4 == [s3 EXCEPT !.labels = save_timeline_label(s3, fork_slug, label)]
        s5 == [s4 EXCEPT !.refs = reset_branch_ref(s4, MAIN_BRANCH, load_prev_tip(s))]
        s6 == [s5 EXCEPT !.HEAD = Symbolic(fork_ref), !.prev_tip = None]
    IN  IF load_prev_tip(s) = None THEN Res(s, FALSE, None)
        ELSE Res(s6, TRUE, commit_id)

\* "Restored from <first 8 characters of commit_id>"
RestoredMessage(commit_id) == [text |-> "Restored from", of |-> commit_id.oid]
UserMessage(text) == [text |-> text, of |-> None]

\* restore_version committing the folder as it is, without the checkout
restore_without_checkout(s, commit_id, t) ==
    LET co == checkout_version(s, commit_id)
    IN  IF ~co.ok THEN co
        ELSE commit_snapshot(s, RestoredMessage(commit_id), NoLabel, t)

restore_version(s, commit_id, t) ==
    LET co == checkout_version(s, commit_id)
    IN  IF ~co.ok THEN co
        ELSE commit_snapshot(co.st, RestoredMessage(commit_id), NoLabel, t)

\* stash_working_tree keeping a tree the slot holds already
stash_keeps_first(s) ==
    IF s.stash.has THEN Res(s, TRUE, None)
    ELSE Res([s EXCEPT !.stash = [has |-> TRUE, tree |-> build_tree_from_dir(s.wd)]],
             TRUE, None)

stash_working_tree(s) ==
    Res([s EXCEPT !.stash = [has |-> TRUE, tree |-> build_tree_from_dir(s.wd)]],
        TRUE, None)

\* pop_stash writing the stashed tree over the folder as it is
pop_without_clean(s) ==
    IF ~s.stash.has THEN Res(s, TRUE, FALSE)
    ELSE Res([s EXCEPT !.wd = write_tree_to_dir(s.stash.tree, s.wd),
                       !.stash = NoStash],
             TRUE, TRUE)

\* pop_stash clearing the folder before it looks for the stash file
pop_cleans_first(s) ==
    IF ~s.stash.has THEN Res([s EXCEPT !.wd = clean_working_dir(s.wd)], TRUE, FALSE)
    ELSE Res([s EXCEPT !.wd = write_tree_to_dir(s.stash.tree, clean_working_dir(s.wd)),
                       !.stash = NoStash],
             TRUE, TRUE)

pop_stash(s) ==
    IF ~s.stash.has THEN Res(s, TRUE, FALSE)
    ELSE Res([s EXCEPT !.wd = write_tree_to_dir(s.stash.tree, clean_working_dir(s.wd)),
                       !.stash = NoStash],
             TRUE, TRUE)

\* the first listed timeline whose ref points at target; 0 when there is none
AttachIndex(s, tls, target) ==
    IF \E i \in 1..Len(tls) :
          TimelineTip(s, tls[i].name) # None /\ TimelineTip(s, tls[i].name) = target
    THEN MinIndex({i \in 1..Len(tls) :
                      TimelineTip(s, tls[i].name) # None /\ TimelineTip(s, tls[i].name) = target})
    ELSE 0

\* the HEAD navigate_to_snapshot writes: the ref of the timeline at index at,
\* or the target itself when no timeline tip is the target
NavigateHead(tls, at, target) ==
    IF at # 0 THEN Symbolic(RefOfName(tls[at].name)) ELSE Detached(target)

\* navigate_to_snapshot as its header comment still describes it: a backward
\* step resets the current branch to the target
navigate_resets_branch(s, commit_id) ==
    LET p == ParseOid(commit_id)
        target_oid == p.oid
        head_oid == head_commit(s)
        going_backward_on_current == is_ancestor(s, target_oid, head_oid)
        s1 == IF going_backward_on_current /\ load_prev_tip(s) = None
              THEN [s EXCEPT !.prev_tip = head_oid] ELSE s
        s2 == IF load_prev_tip(s1) # None /\ target_oid = load_prev_tip(s1)
              THEN [s1 EXCEPT !.prev_tip = None] ELSE s1
        s3 == IF going_backward_on_current /\ s.HEAD.sym
              THEN [s2 EXCEPT !.refs = (s.HEAD.name :> target_oid) @@ s.refs]
              ELSE [s2 EXCEPT !.HEAD =
                       NavigateHead(list_timelines(s2),
                                    AttachIndex(s2, list_timelines(s2), target_oid),
                                    target_oid)]
    IN  IF ~p.ok \/ head_oid = None THEN Res(s, FALSE, None)
        ELSE IF target_oid = head_oid THEN checkout_version(s, commit_id)
        ELSE checkout_version(s3, commit_id)

\* navigate_to_snapshot taking "target is the current HEAD" as a no-op
navigate_skips_refresh(s, commit_id) ==
    LET p == ParseOid(commit_id)
        target_oid == p.oid
        head_oid == head_commit(s)
        going_backward_on_current == is_ancestor(s, target_oid, head_oid)
        s1 == IF going_backward_on_current /\ load_prev_tip(s) = None
              THEN [s EXCEPT !.prev_tip = head_oid] ELSE s
        s2 == IF load_prev_tip(s1) # None /\ target_oid = load_prev_tip(s1)
              THEN [s1 EXCEPT !.prev_tip = None] ELSE s1
        s3 == [s2 EXCEPT !.HEAD =
                  NavigateHead(list_timelines(s2),
                               AttachIndex(s2, list_timelines(s2), target_oid),
                               target_oid)]
    IN  IF ~p.ok \/ head_oid = None THEN Res(s, FALSE, None)
        ELSE IF target_oid = head_oid THEN Res(s, TRUE, None)
        ELSE checkout_version(s3, commit_id)

\* navigate_to_snapshot saving the head as prev-tip on every move off the
\* head, backward or not
navigate_saves_always(s, commit_id) ==
    LET p == ParseOid(commit_id)
        target_oid == p.oid
        head_oid == head_commit(s)
        s1 == IF load_prev_tip(s) = None
              THEN [s EXCEPT !.prev_tip = head_oid] ELSE s
        s2 == IF load_prev_tip(s1) # None /\ target_oid = load_prev_tip(s1)
              THEN [s1 EXCEPT !.prev_tip = None] ELSE s1
        s3 == [s2 EXCEPT !.HEAD =
                  NavigateHead(list_timelines(s2),
                               AttachIndex(s2, list_timelines(s2), target_oid),
                               target_oid)]
    IN  IF ~p.ok \/ head_oid = None THEN Res(s, FALSE, None)
        ELSE IF target_oid = head_oid THEN checkout_version(s, commit_id)
        ELSE checkout_version(s3, commit_id)

navigate_to_snapshot(s, commit_id) ==
    LET p == ParseOid(commit_id)
        target_oid == p.oid
        head_oid == head_commit(s)
        going_backward_on_current == is_ancestor(s, target_oid, head_oid)
        \* save_prev_tip writes only when the file does not exist
        s1 == IF going_backward_on_current /\ load_prev_tip(s) = None
              THEN [s EXCEPT !.prev_tip = head_oid] ELSE s
        s2 == IF load_prev_tip(s1) # None /\ target_oid = load_prev_tip(s1)
              THEN [s1 EXCEPT !.prev_tip = None] ELSE s1
        s3 == [s2 EXCEPT !.HEAD =
                  NavigateHead(list_timelines(s2),
                               AttachIndex(s2, list_timelines(s2), target_oid),
                               target_oid)]
    IN  IF ~p.ok \/ head_oid = None THEN Res(s, FALSE, None)
        ELSE IF target_oid = head_oid THEN checkout_version(s, commit_id)
        ELSE checkout_version(s3, commit_id)

\* navigate_to_snapshot up to the update of prev-tip (l.284-316); done tells
\* whether the call has returned: on an error, or when the target is the head
navigate_to_prev_tip(s, commit_id) ==
    LET p == ParseOid(commit_id)
        target_oid == p.oid
        head_oid == head_commit(s)
        going_backward_on_current == is_ancestor(s, target_oid, head_oid)
        s1 == IF going_backward_on_current /\ load_prev_tip(s) = None
              THEN [s EXCEPT !.prev_tip = head_oid] ELSE s
        s2 == IF load_prev_tip(s1) # None /\ target_oid = load_prev_tip(s1)
              THEN [s1 EXCEPT !.prev_tip = None] ELSE s1
    IN  IF ~p.ok \/ head_oid = None THEN [r |-> Res(s, FALSE, None), done |-> TRUE]
        ELSE IF target_oid = head_oid
             THEN [r |-> checkout_version(s, commit_id), done |-> TRUE]
        ELSE [r |-> Res(s2, TRUE, None), done |-> FALSE]

\* navigate_to_snapshot from the listing of the timelines on (l.318-343): it
\* writes HEAD and checks the target out
navigate_from_head(s, commit_id) ==
    checkout_version(
        [s EXCEPT !.HEAD = NavigateHead(list_timelines(s),
                                        AttachIndex(s, list_timelines(s), commit_id.oid),
                                        commit_id.oid)],
        commit_id)

create_timeline(s, from_commit_id, name) ==
    LET p == ParseOid(from_commit_id)
        slug == slugify_timeline_name(name)
        ref_name == TIMELINE_PREFIX \o slug
        created == reference_must_not_exist(s, ref_name, p.oid)
        s1 == [s EXCEPT !.refs = created.refs,
                        !.labels = save_timeline_label(s, slug, name),
                        !.HEAD = Symbolic(ref_name)]
    IN  IF ~p.ok \/ ~find_commit(s, p.oid) \/ ~created.ok THEN Res(s, FALSE, None)
        ELSE checkout_version(s1, from_commit_id)

switch_without_clean(s, name) ==
    LET ref_name == RefOfName(name)
    IN  IF ref_name \notin DOMAIN s.refs THEN Res(s, FALSE, None)
        ELSE Res([s EXCEPT !.HEAD = Symbolic(ref_name),
                           !.wd = write_tree_to_dir(s.commits[s.refs[ref_name]].tree, s.wd)],
                 TRUE, None)

switch_timeline(s, name) ==
    LET ref_name == RefOfName(name)
    IN  IF ref_name \notin DOMAIN s.refs THEN Res(s, FALSE, None)
        ELSE Res([s EXCEPT !.HEAD = Symbolic(ref_name),
                           !.wd = write_tree_to_dir(s.commits[s.refs[ref_name]].tree,
                                                    clean_working_dir(s.wd))],
                 TRUE, None)

delete_timeline(s, name) ==
    LET ref_name == TIMELINE_PREFIX \o name
        active == get_current_branch_name(s)
    IN  IF name = MAIN_BRANCH THEN Res(s, FALSE, None)
        ELSE IF active.some /\ (active.name = ref_name \/ active.name = <<"timeline/">> \o name)
        THEN Res(s, FALSE, None)
        ELSE IF ref_name \notin DOMAIN s.refs THEN Res(s, FALSE, None)
        ELSE Res([s EXCEPT !.refs = [r \in (DOMAIN s.refs) \ {ref_name} |-> s.refs[r]],
                           !.labels = remove_timeline_label(s, name)],
                 TRUE, None)

-----------------------------------------------------------------------------
(* The state machine.                                                      *)

\* an invocation slot of the command layer that runs nothing
Idle == [pc |-> "idle", op |-> "", arg |-> None]

\* the slots in which the runtime can run command handlers at the same time
Slots == 1..MaxInFlight

\* the repository and the ghosts after an engine call with result r
Apply(op, case, r) ==
    /\ commits' = r.st.commits
    /\ refs' = r.st.refs
    /\ HEAD' = r.st.HEAD
    /\ labels' = r.st.labels
    /\ prev_tip' = r.st.prev_tip
    /\ stash' = r.st.stash
    /\ wd' = r.st.wd
    /\ last' = [op |-> op, case |-> case, ok |-> r.ok]
    /\ returned' = IF r.ok /\ op \in {"commit", "restore"}
                   THEN returned \cup {r.ret} ELSE returned

\* an engine call made on its own, with no command handler running
Done(op, case, r) ==
    /\ Apply(op, case, r)
    /\ UNCHANGED inflight

\* init_project_repo on a folder that holds the project file
Init ==
    /\ commits = <<>>
    /\ refs = [r \in {} |-> None]
    /\ HEAD = Symbolic(MainRef)
    /\ labels = [r \in {} |-> <<>>]
    /\ prev_tip = None
    /\ stash = NoStash
    /\ wd = Dir1
    /\ now = 0
    /\ last = [op |-> "init", case |-> "", ok |-> TRUE]
    /\ returned = {}
    /\ inflight = [p \in Slots |-> Idle]

\* a string that is no object id
NotAnOid == [hex |-> FALSE, oid |-> None]

\* the ids of the commits in the store, as the caller holds them
StoredIdStrings == {OidToString(i) : i \in 1..Len(commits)}

\* the commit ids a caller can pass: a stored one, one that names no object,
\* and a string that does not parse
AnyIdStrings == StoredIdStrings \cup {OidToString(AbsentOid), NotAnOid}

\* the names of the timelines that exist
ExistingNames ==
    {MAIN_BRANCH} \cup {StripPrefix(r, TIMELINE_PREFIX) :
                            r \in {q \in DOMAIN refs : StartsWith(q, TIMELINE_PREFIX)}}

\* timeline names a caller can pass to switch_timeline and delete_timeline
TimelineNames == ExistingNames \cup {<<"x">>}

UserMessages == {UserMessage("save")}

ForkLabelInputs == {NoLabel} \cup {SomeLabel(l) : l \in ForkLabels}

\* what a commit meets: a rewound position (it forks) or not (it appends)
CommitCase(s) == IF is_rewound(s) THEN "fork" ELSE "append"

\* what a navigation meets: the head itself, with or without edits in the
\* folder, a strict ancestor of the head, or any other id
NavigateCase(s, commit_id) ==
    IF ~commit_id.hex \/ head_commit(s) = None THEN "error"
    ELSE IF commit_id.oid = head_commit(s)
         THEN IF has_unsaved_changes(s) THEN "refresh-dirty" ELSE "refresh"
    ELSE IF is_ancestor(s, commit_id.oid, head_commit(s)) THEN "backward"
    ELSE "other"

\* what a checkout meets: no such commit, a folder stashed by the call before,
\* a folder holding visible entries the commit does not have, or another
CheckoutCase(s, prev, commit_id) ==
    IF ~checkout_version(s, commit_id).ok THEN "error"
    ELSE IF prev.op = "stash" /\ prev.ok THEN "after-stash"
    ELSE IF \E n \in DOMAIN build_tree_from_dir(s.wd) :
               n \notin DOMAIN s.commits[commit_id.oid].tree
         THEN "replace"
    ELSE "other"

\* what a pop_stash meets: an empty slot, a stash taken right before the
\* successful checkout that preceded the call, or another stash
PopCase(s, prev) ==
    IF ~has_stash(s) THEN "empty"
    ELSE IF prev.op = "checkout" /\ prev.case = "after-stash" THEN "round-trip"
    ELSE "full"

Commit(message, fork_label) ==
    /\ Done("commit", CommitCase(St), commit_snapshot(St, message, fork_label, now))
    /\ UNCHANGED now

Navigate(commit_id) ==
    /\ Done("navigate", NavigateCase(St, commit_id), navigate_to_snapshot(St, commit_id))
    /\ UNCHANGED now

Checkout(commit_id) ==
    /\ Done("checkout", CheckoutCase(St, last, commit_id), checkout_version(St, commit_id))
    /\ UNCHANGED now

Restore(commit_id) ==
    /\ Done("restore", CommitCase(St), restore_version(St, commit_id, now))
    /\ UNCHANGED now

\* what a stash meets: an empty slot, a slot holding another tree than the
\* folder's, or a slot holding the folder's tree already
StashCase(s) ==
    IF ~has_stash(s) THEN "fill"
    ELSE IF s.stash.tree # build_tree_from_dir(s.wd) THEN "replace"
    ELSE "again"

Stash ==
    /\ Done("stash", StashCase(St), stash_working_tree(St))
    /\ UNCHANGED now

PopStash ==
    /\ Done("pop_stash", PopCase(St, last), pop_stash(St))
    /\ UNCHANGED now

CreateTimeline(commit_id, name) ==
    /\ Done("create_timeline", "", create_timeline(St, commit_id, name))
    /\ UNCHANGED now

\* which case of switch_timeline a call exercises: "discard" when the folder
\* holds an entry that the target tip's tree does not have
SwitchCase(s, name) ==
    IF ~switch_timeline(s, name).ok THEN "error"
    ELSE IF \E n \in DOMAIN build_tree_from_dir(s.wd) :
                n \notin DOMAIN s.commits[s.refs[RefOfName(name)]].tree
         THEN "discard"
         ELSE "other"

SwitchTimeline(name) ==
    /\ Done("switch_timeline", SwitchCase(St, name), switch_timeline(St, name))
    /\ UNCHANGED now

DeleteTimeline(name) ==
    /\ Done("delete_timeline", "", delete_timeline(St, name))
    /\ UNCHANGED now

\* the application or the user rewrites the project folder
WriteFiles(dir) ==
    /\ wd # dir
    /\ wd' = dir
    /\ last' = [op |-> "write", case |-> "", ok |-> TRUE]
    /\ UNCHANGED <<commits, refs, HEAD, labels, prev_tip, stash, now, returned, inflight>>

\* a second passes
Tick ==
    /\ now' = now + 1
    /\ last' = [op |-> "tick", case |-> "", ok |-> TRUE]
    /\ UNCHANGED <<commits, refs, HEAD, labels, prev_tip, stash, wd, returned, inflight>>

\* The full machine: every operation with every input.
Next ==
    \/ \E m \in UserMessages, fl \in ForkLabelInputs :
          Len(commits) < MaxCommits /\ Commit(m, fl)
    \/ \E c \in AnyIdStrings : Navigate(c)
    \/ \E c \in AnyIdStrings : Checkout(c)
    \/ \E c \in AnyIdStrings : Len(commits) < MaxCommits /\ Restore(c)
    \/ Stash
    \/ PopStash
    \/ \E c \in AnyIdStrings, l \in Labels : CreateTimeline(c, l)
    \/ \E n \in TimelineNames : SwitchTimeline(n)
    \/ \E n \in TimelineNames : DeleteTimeline(n)
    \/ \E d \in WdChoices : WriteFiles(d)
    \/ now < MaxTime /\ Tick

Spec == Init /\ [][Next]_vars

\* The rewind / fork machine: the operations that move HEAD, the refs and
\* prev-tip, called with commits and timelines that exist.
NextFork ==
    \/ \E m \in UserMessages, fl \in ForkLabelInputs :
          Len(commits) < ForkMaxCommits /\ Commit(m, fl)
    \/ \E c \in StoredIdStrings : Navigate(c)
    \/ \E c \in StoredIdStrings, l \in Labels : CreateTimeline(c, l)
    \/ \E n \in ExistingNames : SwitchTimeline(n)
    \/ \E d \in WdChoices : WriteFiles(d)
    \/ now < MaxTime /\ Tick

SpecFork == Init /\ [][NextFork]_vars

\* Longer histories, all within one second and without fork labels: commits,
\* navigation and timelines, called with commits and timelines that exist.
NextHist ==
    \/ \E m \in UserMessages : Len(commits) < HistMaxCommits /\ Commit(m, NoLabel)
    \/ \E c \in StoredIdStrings : Navigate(c)
    \/ \E c \in StoredIdStrings, l \in Labels : CreateTimeline(c, l)
    \/ \E n \in ExistingNames : SwitchTimeline(n)
    \/ \E d \in WdChoices : WriteFiles(d)

SpecHist == Init /\ [][NextHist]_vars

\* Navigation among what the operations on HEAD, the refs, prev-tip and the
\* folder can build within one second: navigate takes every input, the others
\* commits and timelines that exist.
NextNav ==
    \/ \E m \in UserMessages : Len(commits) < NavMaxCommits /\ Commit(m, NoLabel)
    \/ \E c \in AnyIdStrings : Navigate(c)
    \/ \E c \in StoredIdStrings : Checkout(c)
    \/ \E c \in StoredIdStrings : Len(commits) < NavMaxCommits /\ Restore(c)
    \/ \E c \in StoredIdStrings, l \in Labels : CreateTimeline(c, l)
    \/ \E n \in ExistingNames : SwitchTimeline(n)
    \/ \E n \in ExistingNames : DeleteTimeline(n)
    \/ \E d \in WdChoices : WriteFiles(d)

SpecNav == Init /\ [][NextNav]_vars

\* One timeline and no navigation: commits, edits of the folder and the clock.
NextLinear ==
    \/ \E m \in UserMessages, fl \in ForkLabelInputs :
          Len(commits) < LinMaxCommits /\ Commit(m, fl)
    \/ \E d \in WdChoices : WriteFiles(d)
    \/ now < MaxTime /\ Tick

SpecLinear == Init /\ [][NextLinear]_vars

\* The folder and the stash slot: commits, checkouts, stash and pop, and
\* edits of the folder, with files, directories and hidden entries.
NextDir ==
    \/ \E m \in UserMessages : Len(commits) < DirMaxCommits /\ Commit(m, NoLabel)
    \/ \E c \in AnyIdStrings : Checkout(c)
    \/ Stash
    \/ PopStash
    \/ \E d \in DirChoices : WriteFiles(d)

SpecDir == Init /\ [][NextDir]_vars

\* The timeline registry: create, switch and delete with names that exist
\* and names that do not, among commits and navigation.
NextTl ==
    \/ \E m \in UserMessages : Len(commits) < TlMaxCommits /\ Commit(m, NoLabel)
    \/ \E c \in StoredIdStrings : Navigate(c)
    \/ \E c \in AnyIdStrings, l \in TlLabels : CreateTimeline(c, l)
    \/ \E n \in TimelineNames : SwitchTimeline(n)
    \/ \E n \in TimelineNames : DeleteTimeline(n)
    \/ \E d \in WdChoices : WriteFiles(d)

SpecTl == Init /\ [][NextTl]_vars

\* Switching between timelines over changed folders.
NextSwitch ==
    \/ \E m \in UserMessages : Len(commits) < SwMaxCommits /\ Commit(m, NoLabel)
    \/ \E c \in StoredIdStrings, l \in TlLabels : CreateTimeline(c, l)
    \/ \E n \in TimelineNames : SwitchTimeline(n)
    \/ \E d \in DirChoices : WriteFiles(d)

SpecSwitch == Init /\ [][NextSwitch]_vars

\* Restoring earlier versions, at the tip and while rewound.
NextRestore ==
    \/ \E m \in UserMessages : Len(commits) < RestMaxCommits /\ Commit(m, NoLabel)
    \/ \E c \in AnyIdStrings : Len(commits) < RestMaxCommits /\ Restore(c)
    \/ \E c \in StoredIdStrings : Navigate(c)
    \/ \E d \in WdChoices : WriteFiles(d)

SpecRestore == Init /\ [][NextRestore]_vars

\* Committing the same content again: commits from the tip and after a step
\* back, over folders that differ in hidden entries only, within one second
\* and across seconds.
NextDet ==
    \/ \E m \in UserMessages : Len(commits) < DetMaxCommits /\ Commit(m, NoLabel)
    \/ \E c \in StoredIdStrings : Navigate(c)
    \/ \E d \in DetChoices : WriteFiles(d)
    \/ now < MaxTime /\ Tick

SpecDet == Init /\ [][NextDet]_vars

\* The prev-tip marker under every operation, over one folder content:
\* navigate takes every input, the others commits and timelines that exist.
NextRew ==
    \/ \E m \in UserMessages : Len(commits) < RewMaxCommits /\ Commit(m, NoLabel)
    \/ \E c \in AnyIdStrings : Navigate(c)
    \/ \E c \in StoredIdStrings : Checkout(c)
    \/ \E c \in StoredIdStrings : Len(commits) < RewMaxCommits /\ Restore(c)
    \/ Stash
    \/ PopStash
    \/ \E c \in StoredIdStrings, l \in Labels : CreateTimeline(c, l)
    \/ \E n \in ExistingNames : SwitchTimeline(n)
    \/ \E n \in ExistingNames : DeleteTimeline(n)

SpecRew == Init /\ [][NextRew]_vars

\* The timelines and their lengths: commits, forks in one second and in
\* another, timelines created at stored commits, and navigation.
NextCount ==
    \/ \E m \in UserMessages : Len(commits) < CountMaxCommits /\ Commit(m, NoLabel)
    \/ \E c \in StoredIdStrings : Navigate(c)
    \/ \E c \in StoredIdStrings, l \in Labels : CreateTimeline(c, l)
    \/ now < MaxTime /\ Tick

SpecCount == Init /\ [][NextCount]_vars

\* Previews and the stash among positions that are rewound, detached or on
\* a created timeline: checkout, stash and pop over changing folders.
NextFrame ==
    \/ \E m \in UserMessages : Len(commits) < FrameMaxCommits /\ Commit(m, NoLabel)
    \/ \E c \in StoredIdStrings : Navigate(c)
    \/ \E c \in AnyIdStrings : Checkout(c)
    \/ Stash
    \/ PopStash
    \/ \E c \in StoredIdStrings, l \in Labels : CreateTimeline(c, l)
    \/ \E d \in WdChoices : WriteFiles(d)

SpecFrame == Init /\ [][NextFrame]_vars

\* The command layer (commands/versioning.rs).  A handler is an async
\* function: project_root takes the current_project lock, copies the root and
\* releases the lock; the engine call follows with no lock held.
CmdCall(p, op, arg) ==
    /\ inflight[p].pc = "idle"
    /\ inflight' = [inflight EXCEPT ![p] = [pc |-> "engine", op |-> op, arg |-> arg]]
    /\ last' = [op |-> "call", case |-> op, ok |-> TRUE]
    /\ UNCHANGED <<commits, refs, HEAD, labels, prev_tip, stash, wd, now, returned>>

\* save_with_label, first part of the engine's commit_snapshot: up to the
\* commit on HEAD; the handler returns unless the first read found prev-tip
CmdCommitHead(p) ==
    /\ inflight[p].pc = "engine" /\ inflight[p].op = "commit"
    /\ Len(commits) < CmdMaxCommits
    /\ IF commit_to_head(St, inflight[p].arg, now).done
       THEN /\ Apply("commit", CommitCase(St), commit_to_head(St, inflight[p].arg, now).r)
            /\ inflight' = [inflight EXCEPT ![p] = Idle]
       ELSE /\ Apply("commit-head", "", commit_to_head(St, inflight[p].arg, now).r)
            /\ inflight' = [inflight EXCEPT ![p] =
                                [pc |-> "fork", op |-> "commit",
                                 arg |-> [commit_id |-> commit_to_head(St, inflight[p].arg, now).r.ret,
                                          prev_tip |-> load_prev_tip(St)]]]
    /\ UNCHANGED now

\* save_with_label, second part: the second read of prev-tip and the fork,
\* then the handler returns (or the unwrap has panicked)
CmdCommitFork(p) ==
    /\ inflight[p].pc = "fork"
    /\ Apply("commit", IF load_prev_tip(St) = None THEN "panic" ELSE "fork",
             commit_fork(St, inflight[p].arg.commit_id, NoLabel, now))
    /\ inflight' = [inflight EXCEPT ![p] = Idle]
    /\ UNCHANGED now

\* navigate_to_snapshot, first part: up to the update of prev-tip
CmdNavigatePrevTip(p) ==
    /\ inflight[p].pc = "engine" /\ inflight[p].op = "navigate"
    /\ IF navigate_to_prev_tip(St, inflight[p].arg).done
       THEN /\ Apply("navigate", NavigateCase(St, inflight[p].arg),
                     navigate_to_prev_tip(St, inflight[p].arg).r)
            /\ inflight' = [inflight EXCEPT ![p] = Idle]
       ELSE /\ Apply("navigate", "prev-tip", navigate_to_prev_tip(St, inflight[p].arg).r)
            /\ inflight' = [inflight EXCEPT ![p].pc = "head"]
    /\ UNCHANGED now

\* navigate_to_snapshot, second part: HEAD and the folder, then the handler returns
CmdNavigateHead(p) ==
    /\ inflight[p].pc = "head"
    /\ Apply("navigate", "head", navigate_from_head(St, inflight[p].arg))
    /\ inflight' = [inflight EXCEPT ![p] = Idle]
    /\ UNCHANGED now

NextCmd ==
    \/ \E p \in Slots, m \in UserMessages : CmdCall(p, "commit", m)
    \/ \E p \in Slots, c \in StoredIdStrings : CmdCall(p, "navigate", c)
    \/ \E p \in Slots : CmdCommitHead(p)
    \/ \E p \in Slots : CmdCommitFork(p)
    \/ \E p \in Slots : CmdNavigatePrevTip(p)
    \/ \E p \in Slots : CmdNavigateHead(p)
    \/ \E d \in WdChoices : WriteFiles(d)

SpecCmd == Init /\ [][NextCmd]_vars

-----------------------------------------------------------------------------
(* Properties.                                                             *)

\* what list_timelines shows of each timeline: its slug, its tip, its label
TimelineViewOf(s, tls) ==
    {[name |-> tls[i].name, label |-> tls[i].label,
      tip |-> TimelineTip(s, tls[i].name)] : i \in 1..Len(tls)}

TimelineView(s) == TimelineViewOf(s, list_timelines(s))

\* C1: a successful commit_snapshot made while rewound (prev_tip set, the head
\* a strict ancestor of it) leaves every timeline ref that existed before it,
\* main and the timeline rewound on included, pointing at the commit it
\* pointed at; only a ref the commit creates may point elsewhere.
C1_ForkKeepsTips ==
    [][(/\ last'.op = "commit" /\ last'.ok
        /\ is_rewound(St)
        /\ head_commit(St) # load_prev_tip(St)
        /\ is_ancestor(St, head_commit(St), load_prev_tip(St))) =>
          \A r \in DOMAIN refs : r \in DOMAIN refs' /\ refs'[r] = refs[r]]_vars

\* C2: without delete_timeline, every commit id that commit or restore has
\* returned is a node of get_timeline_graph.
C2_HistoryKept ==
    \A c \in returned : c \in NodeIds(get_timeline_graph(St))

\* C3: whenever prev_tip is set, the head commit exists, is not prev_tip and is
\* a first-parent ancestor of prev_tip.
C3_RewoundInvariant ==
    is_rewound(St) =>
        /\ head_commit(St) # None
        /\ head_commit(St) # load_prev_tip(St)
        /\ is_ancestor(St, head_commit(St), load_prev_tip(St))

\* C4: whenever the store holds a commit and prev_tip is not set, HEAD names a
\* timeline ref that exists, so that the head commit is that timeline's tip.
C4_AtTipInvariant ==
    (Len(commits) >= 1 /\ ~is_rewound(St)) =>
        /\ HEAD.sym
        /\ HEAD.name \in DOMAIN refs
        /\ head_commit(St) = refs[HEAD.name]

\* C5: every successful commit_snapshot made while rewound makes list_timelines
\* one longer, whatever the second the fork slug is taken from.
C5_ForkAddsOneTimeline ==
    [][(last'.op = "commit" /\ last'.ok /\ is_rewound(St)) =>
          Len(list_timelines(St')) = Len(list_timelines(St)) + 1]_vars

\* C6: a successful commit_snapshot made while rewound at head C leaves HEAD on
\* a timeline ref that did not exist before, whose tip is a commit with parent
\* C, and leaves prev_tip unset; the successful commit right after a fork is an
\* append that creates no ref.
C6_ForkOnce ==
    [][/\ (last'.op = "commit" /\ last'.ok /\ is_rewound(St)) =>
             /\ HEAD'.sym
             /\ HEAD'.name \notin DOMAIN refs
             /\ HEAD'.name \in DOMAIN refs'
             /\ commits'[refs'[HEAD'.name]].parent = head_commit(St)
             /\ ~is_rewound(St')
       /\ (last.op = "commit" /\ last.ok /\ last.case = "fork"
             /\ last'.op = "commit" /\ last'.ok) =>
             /\ last'.case = "append"
             /\ DOMAIN refs' = DOMAIN refs]_vars

\* C7: navigate_to_snapshot with a string that is no object id, or with the id
\* of no stored commit, fails and leaves HEAD, the refs, prev_tip, the stash
\* and the folder as they were.
C7_NavigateErrorLeavesState ==
    [][\A c \in {NotAnOid, OidToString(AbsentOid)} :
          Navigate(c) =>
              /\ ~last'.ok
              /\ UNCHANGED <<HEAD, refs, prev_tip, stash, wd>>]_vars

\* C8: after navigate_to_snapshot to a first-parent ancestor of the head other
\* than the head, list_versions is the first-parent chain from the target down
\* to the root and is_rewound is true.
C8_RewindListsChain ==
    [][\A c \in StoredIdStrings :
          (Navigate(c) /\ c.oid # head_commit(St)
              /\ is_ancestor(St, c.oid, head_commit(St))) =>
              /\ last'.ok
              /\ is_rewound(St')
              /\ list_versions(St') =
                    [i \in 1..Len(FirstParentChain(St, c.oid)) |->
                        [id |-> FirstParentChain(St, c.oid)[i],
                         message |-> commits[FirstParentChain(St, c.oid)[i]].message]]]_vars

C11_AppendAdvancesActive ==
    [][\A m \in UserMessages :
          (Commit(m, NoLabel) /\ last'.ok /\ ~is_rewound(St)) =>
              /\ commits'[commit_snapshot(St, m, NoLabel, now).ret].parent = head_commit(St)
              /\ \E i \in 1..Len(list_timelines(St')) :
                    /\ list_timelines(St')[i].is_active
                    /\ TimelineTip(St', list_timelines(St')[i].name)
                          = commit_snapshot(St, m, NoLabel, now).ret
                    /\ \A r \in DOMAIN refs :
                          r # RefOfName(list_timelines(St')[i].name) =>
                              r \in DOMAIN refs' /\ refs'[r] = refs[r]]_vars

\* C12: on one timeline without navigation every commit_snapshot succeeds and
\* puts exactly one entry, the commit it returns, in front of list_versions,
\* also when the folder is unchanged; each entry is followed by its first
\* parent and the last entry has none.
C12_LinearAppend ==
    [][\A m \in UserMessages, fl \in ForkLabelInputs :
          Commit(m, fl) =>
              /\ last'.ok
              /\ Len(list_versions(St')) = Len(list_versions(St)) + 1
              /\ list_versions(St')[1] =
                    [id |-> commit_snapshot(St, m, fl, now).ret, message |-> m]
              /\ \A i \in 1..Len(list_versions(St)) :
                    list_versions(St')[i + 1] = list_versions(St)[i]
              /\ \A i \in 1..Len(list_versions(St')) :
                    commits'[list_versions(St')[i].id].parent =
                        IF i < Len(list_versions(St'))
                        THEN list_versions(St')[i + 1].id ELSE None]_vars

\* three commits in a row, two of them over the same content
C12_Witness ==
    /\ last.op = "commit" /\ last.ok
    /\ Len(list_versions(St)) >= 3
    /\ commits[list_versions(St)[1].id].tree = commits[list_versions(St)[2].id].tree

\* C13: right after every successful commit_snapshot, an append or a fork, the
\* head commit exists, its tree is the tree built from the folder, and
\* has_unsaved_changes is false.
C13_CleanAfterCommit ==
    [][(last'.op = "commit" /\ last'.ok) =>
          /\ head_commit(St') # None
          /\ build_tree_from_dir(wd') = commits'[head_commit(St')].tree
          /\ ~has_unsaved_changes(St')]_vars

\* C14: checkout_version of a stored commit succeeds and the tree built from
\* the folder afterwards is the commit's tree, whatever visible files and
\* directories the folder held before.
C14_CheckoutRoundTrip ==
    [][\A c \in StoredIdStrings :
          Checkout(c) =>
              /\ last'.ok
              /\ build_tree_from_dir(wd') = commits[c.oid].tree]_vars

\* a checkout has replaced a folder that held entries the commit does not have
C14_Witness ==
    /\ last.op = "checkout" /\ last.ok /\ last.case = "replace"
    /\ \E i \in 1..Len(commits) : build_tree_from_dir(wd) = commits[i].tree

\* C15: stash_working_tree records the tree of the folder and leaves the
\* folder alone; the checkout of a stored commit that follows leaves the slot
\* alone; the pop_stash that follows returns true, leaves the folder's visible
\* content equal to the recorded tree and empties the slot.
C15_StashRoundTrip ==
    [][/\ Stash =>
             /\ last'.ok
             /\ stash' = [has |-> TRUE, tree |-> build_tree_from_dir(wd)]
             /\ wd' = wd
       /\ \A c \in StoredIdStrings :
             (Checkout(c) /\ last.op = "stash") =>
                 /\ last'.ok /\ last'.case = "after-stash"
                 /\ stash' = stash
       /\ (PopStash /\ last.op = "checkout" /\ last.case = "after-stash") =>
             /\ last'.ok
             /\ pop_stash(St).ret = TRUE
             /\ build_tree_from_dir(wd') = stash.tree
             /\ ~has_stash(St')]_vars

\* stash, checkout, pop_stash have run in a row and the pop changed the folder
C15_Witness ==
    /\ last.op = "pop_stash" /\ last.ok /\ last.case = "round-trip"
    /\ ~has_stash(St)
    /\ \A i \in 1..Len(commits) : build_tree_from_dir(wd) # commits[i].tree

\* C16: pop_stash on an empty slot succeeds with false and changes nothing:
\* the folder, HEAD, the refs, prev_tip and the empty slot are as before.
C16_PopEmptyIsNoop ==
    [][(PopStash /\ ~has_stash(St)) =>
          /\ last'.ok
          /\ pop_stash(St).ret = FALSE
          /\ ~has_stash(St')
          /\ UNCHANGED <<wd, HEAD, refs, prev_tip, stash, commits, labels>>]_vars

\* pop_stash has run on an empty slot over a folder with visible content
C16_Witness ==
    /\ last.op = "pop_stash" /\ last.ok /\ last.case = "empty"
    /\ DOMAIN build_tree_from_dir(wd) # {}

\* C17: delete_timeline of main, or of the timeline list_timelines reports
\* active (also with a detached HEAD), fails and leaves refs, labels, HEAD and
\* prev_tip as they were; of any other existing timeline it succeeds and
\* removes that timeline's ref and label and nothing else.
C17_DeleteTimeline ==
    [][\A n \in ExistingNames :
          DeleteTimeline(n) =>
              IF \/ n = MAIN_BRANCH
                 \/ \E i \in 1..Len(list_timelines(St)) :
                       list_timelines(St)[i].name = n /\ list_timelines(St)[i].is_active
              THEN /\ ~last'.ok
                   /\ UNCHANGED <<refs, labels, HEAD, prev_tip>>
              ELSE /\ last'.ok
                   /\ refs' = [r \in (DOMAIN refs) \ {TimelineRef(n)} |-> refs[r]]
                   /\ labels' = [k \in (DOMAIN labels) \ {n} |-> labels[k]]
                   /\ UNCHANGED <<HEAD, prev_tip, commits, stash, wd>>]_vars

\* C18: whenever there is a head commit, list_timelines reports exactly one
\* active timeline, and the head commit is that timeline's tip or a
\* first-parent ancestor of its tip, also with a detached HEAD.
C18_OneActiveTimeline ==
    head_commit(St) # None =>
        \E i \in 1..Len(list_timelines(St)) :
            /\ list_timelines(St)[i].is_active
            /\ \A j \in 1..Len(list_timelines(St)) : list_timelines(St)[j].is_active => j = i
            /\ is_ancestor(St, head_commit(St), TimelineTip(St, list_timelines(St)[i].name))

\* C19: create_timeline with a from_commit that is not in the store fails and
\* leaves refs, labels, HEAD and the working directory unchanged; when it
\* succeeds, list_timelines has exactly one more timeline, the new timeline's
\* ref points at from_commit, it is listed with the given label and is the
\* only active one, and the working directory equals from_commit's tree.
C19_CreateTimeline ==
    [][\A c \in AnyIdStrings, l \in TlLabels :
          CreateTimeline(c, l) =>
              IF c \notin StoredIdStrings
              THEN /\ ~last'.ok
                   /\ UNCHANGED <<refs, labels, HEAD, wd>>
              ELSE last'.ok =>
                   /\ Len(list_timelines(St')) = Len(list_timelines(St)) + 1
                   /\ TIMELINE_PREFIX \o slugify_timeline_name(l) \in DOMAIN refs'
                   /\ refs'[TIMELINE_PREFIX \o slugify_timeline_name(l)] = ParseOid(c).oid
                   /\ \E i \in 1..Len(list_timelines(St')) :
                         /\ list_timelines(St')[i].name = slugify_timeline_name(l)
                         /\ list_timelines(St')[i].label = l
                         /\ list_timelines(St')[i].is_active
                         /\ \A j \in 1..Len(list_timelines(St')) :
                               list_timelines(St')[j].is_active => j = i
                   /\ build_tree_from_dir(wd') = commits[ParseOid(c).oid].tree]_vars

\* C20: switch_timeline with a slug that names no timeline fails and changes
\* nothing; when it succeeds HEAD is attached to that timeline's ref, the head
\* commit is the ref's tip, the working directory equals the tip's tree
\* (entries that are not in it are gone) and has_unsaved_changes is false.
C20_SwitchTimeline ==
    [][\A n \in TimelineNames :
          SwitchTimeline(n) =>
              IF n \notin ExistingNames
              THEN /\ ~last'.ok
                   /\ UNCHANGED <<wd, HEAD, refs, prev_tip, stash, commits, labels>>
              ELSE last'.ok =>
                   /\ HEAD' = Symbolic(RefOfName(n))
                   /\ UNCHANGED refs
                   /\ head_commit(St') = refs[RefOfName(n)]
                   /\ build_tree_from_dir(wd') = commits[refs[RefOfName(n)]].tree
                   /\ ~has_unsaved_changes(St')]_vars

C20_Witness ==
    /\ last.op = "switch_timeline" /\ last.ok /\ last.case = "discard"
    /\ HEAD.sym /\ HEAD.name # MainRef
    /\ ~has_unsaved_changes(St)

\* C21: whenever there is a head commit, get_timeline_graph has exactly one
\* node with is_head = true, and that node's id is the head commit.
C21_OneHeadNode ==
    head_commit(St) # None =>
        \E k \in 1..Len(get_timeline_graph(St)) :
            /\ get_timeline_graph(St)[k].is_head
            /\ get_timeline_graph(St)[k].id = head_commit(St)
            /\ \A j \in 1..Len(get_timeline_graph(St)) :
                  get_timeline_graph(St)[j].is_head => j = k

\* the ids on main's first-parent chain
MainChain(s) ==
    IF MainRef \in DOMAIN s.refs
    THEN {FirstParentChain(s, s.refs[MainRef])[k] :
             k \in 1..Len(FirstParentChain(s, s.refs[MainRef]))}
    ELSE {}

\* whether the head node of this graph is the exception: the active
\* timeline (index a in tls, 0 when none) is not main
HeadOfOther(s, tls, a, node) ==
    node.id = head_commit(s) /\ a # 0 /\ tls[a].name # MAIN_BRANCH

\* the attribution get_timeline_graph gives main's chain and the rest
MainFirst(s, tls, a, nodes, chain) ==
    /\ \A c \in chain : \E k \in 1..Len(nodes) : nodes[k].id = c
    /\ \A k \in 1..Len(nodes) :
          IF nodes[k].id \in chain
          THEN HeadOfOther(s, tls, a, nodes[k])
               \/ (nodes[k].timeline = MAIN_BRANCH /\ nodes[k].lane = 0)
          ELSE nodes[k].timeline # MAIN_BRANCH

\* C22: in get_timeline_graph every commit on main's first-parent chain has
\* a node attributed to main with main's lane, except the head commit when
\* the active timeline is not main, and every node of a commit that is not
\* on main's chain is attributed to a timeline other than main.
C22_MainFirstAttribution ==
    MainFirst(St, list_timelines(St), ActiveTimelineIndex(list_timelines(St)),
              get_timeline_graph(St), MainChain(St))

\* whether every node of the head commit carries the name and the lane of
\* the active timeline (index a in tls)
HeadCarriesActive(s, tls, a, nodes) ==
    \A k \in 1..Len(nodes) :
        nodes[k].id = head_commit(s) =>
            /\ nodes[k].timeline = tls[a].name
            /\ nodes[k].lane = tls[a].color_index

\* C23: when list_timelines reports an active timeline, the node of the head
\* commit in get_timeline_graph carries that timeline's name and its
\* color_index as lane, whichever walk reached the commit first.
C23_HeadCarriesActive ==
    ActiveTimelineIndex(list_timelines(St)) # 0 =>
        HeadCarriesActive(St, list_timelines(St), ActiveTimelineIndex(list_timelines(St)),
                          get_timeline_graph(St))

ForkLabelOf(fork_label) ==
    IF fork_label.some /\ trim(fork_label.val) # <<>>
    THEN trim(fork_label.val) ELSE LabelNewDirection

\* C25: after a successful commit in rewound state the fork's timeline is
\* listed with the trimmed fork_label, or "New direction" when that is absent
\* or blank; main is listed with label "Main"; and every timeline listed
\* before the fork is still listed with the label it had.
C25_ForkLabel ==
    [][\A m \in UserMessages, fl \in ForkLabelInputs :
          (Commit(m, fl) /\ is_rewound(St) /\ last'.ok) =>
              /\ \E i \in 1..Len(list_timelines(St')) :
                    /\ list_timelines(St')[i].name = ForkSlug(now)
                    /\ list_timelines(St')[i].label = ForkLabelOf(fl)
              /\ \A i \in 1..Len(list_timelines(St')) :
                    list_timelines(St')[i].name = MAIN_BRANCH =>
                        list_timelines(St')[i].label = LabelMainDisplay
              /\ \A j \in 1..Len(list_timelines(St)) :
                    \E i \in 1..Len(list_timelines(St')) :
                        /\ list_timelines(St')[i].name = list_timelines(St)[j].name
                        /\ list_timelines(St')[i].label = list_timelines(St)[j].label]_vars

\* C26: while a command has begun its engine call and not finished it, no
\* other command's step changes HEAD, the refs, prev_tip, the stash slot or
\* the working directory (edits of the folder by the user aside).
C26_OneOperationAtATime ==
    [][\A p \in Slots :
          (inflight[p].pc = "head" /\ inflight'[p] = inflight[p] /\ last'.op # "write") =>
              UNCHANGED <<HEAD, refs, prev_tip, stash, wd>>]_vars

C29_SlugDisambiguated ==
    [][\A c \in StoredIdStrings, l \in TlLabels :
          (CreateTimeline(c, l) /\ slugify_timeline_name(l) \in ExistingNames) =>
              /\ last'.ok
              /\ \E n \in ExistingNames' :
                    /\ n \notin ExistingNames
                    /\ ExistingNames' = ExistingNames \cup {n}
              /\ \A r \in DOMAIN refs : r \in DOMAIN refs' /\ refs'[r] = refs[r]
              /\ \A k \in DOMAIN labels : k \in DOMAIN labels' /\ labels'[k] = labels[k]]_vars

\* C30: prev_tip is set only by a backward navigation from a position that is
\* not rewound, to the head commit of that moment; while the position stays
\* rewound prev_tip keeps that value; and a navigation made while rewound to
\* a strict first-parent ancestor of the head succeeds and leaves prev_tip
\* as it is.
C30_PrevTipKept ==
    [][/\ (is_rewound(St) /\ is_rewound(St')) => prev_tip' = prev_tip
       /\ (~is_rewound(St) /\ is_rewound(St')) =>
             /\ last'.op = "navigate" /\ last'.case = "backward"
             /\ prev_tip' = head_commit(St)
       /\ \A c \in StoredIdStrings :
             (Navigate(c) /\ is_rewound(St) /\ c.oid # head_commit(St)
                 /\ is_ancestor(St, c.oid, head_commit(St))) =>
                 /\ last'.ok
                 /\ prev_tip' = prev_tip]_vars

\* C31: from every reachable state with prev_tip set, navigate_to_snapshot to
\* prev_tip succeeds, clears prev_tip, leaves HEAD on a timeline ref whose tip
\* is that commit, and creates no timeline: refs and labels are as before.
C31_ReturnToPrevTip ==
    [][\A c \in StoredIdStrings :
          (Navigate(c) /\ is_rewound(St) /\ c.oid = load_prev_tip(St)) =>
              /\ last'.ok
              /\ ~is_rewound(St')
              /\ HEAD'.sym
              /\ HEAD'.name \in DOMAIN refs'
              /\ refs'[HEAD'.name] = c.oid
              /\ refs' = refs
              /\ labels' = labels]_vars

\* the refs that are timelines: main and the refs under refs/heads/timeline/
TimelineRefs(s) ==
    {r \in DOMAIN s.refs : r = MainRef \/ StartsWith(r, TIMELINE_PREFIX)}

\* C32: after a successful navigate_to_snapshot to a target other than the
\* head, HEAD names a timeline ref if and only if the target is the tip of
\* some timeline, and then a ref whose tip is the target; otherwise HEAD is
\* the target itself and names no ref.
C32_AttachIffTip ==
    [][\A c \in StoredIdStrings :
          (Navigate(c) /\ last'.ok /\ c.oid # head_commit(St)) =>
              IF \E r \in TimelineRefs(St) : refs[r] = c.oid
              THEN /\ HEAD'.sym
                   /\ HEAD'.name \in TimelineRefs(St')
                   /\ refs'[HEAD'.name] = c.oid
              ELSE HEAD' = Detached(c.oid)]_vars

\* C33: is_rewound goes from false to true only in a navigate_to_snapshot
\* whose target is a strict first-parent ancestor of the head; from true to
\* false only in a successful navigate_to_snapshot to prev_tip or in a
\* successful commit_snapshot (restore_version makes one); and
\* switch_timeline, create_timeline, delete_timeline, checkout_version,
\* stash_working_tree and pop_stash leave prev_tip as it is.
C33_RewoundTransitions ==
    [][/\ (~is_rewound(St) /\ is_rewound(St')) =>
             \E c \in StoredIdStrings :
                 /\ Navigate(c)
                 /\ c.oid # head_commit(St)
                 /\ is_ancestor(St, c.oid, head_commit(St))
       /\ (is_rewound(St) /\ ~is_rewound(St')) =>
             \/ \E c \in StoredIdStrings :
                   Navigate(c) /\ last'.ok /\ c.oid = load_prev_tip(St)
             \/ last'.op \in {"commit", "restore"} /\ last'.ok
       /\ last'.op \in {"switch_timeline", "create_timeline", "delete_timeline",
                        "checkout", "stash", "pop_stash"} =>
             prev_tip' = prev_tip]_vars

\* a stash has been popped, after timelines were switched, at a position
\* that is still rewound
C33_Witness ==
    /\ last.op = "pop_stash" /\ last.ok /\ last.case = "full"
    /\ is_rewound(St)
    /\ HEAD.sym /\ HEAD.name # MainRef

\* C34: the stash slot holds one tree at most.  has_stash becomes true by a
\* stash_working_tree, becomes false by a pop_stash, and is left alone by
\* every other step; a stash over a full slot replaces its tree by the
\* folder's; and a pop_stash of a full slot leaves the folder's visible
\* content equal to the tree of the latest stash and empties the slot.
C34_SingleSlot ==
    [][/\ has_stash(St') =
             IF last'.op = "stash" /\ last'.ok THEN TRUE
             ELSE IF last'.op = "pop_stash" /\ last'.ok THEN FALSE
             ELSE has_stash(St)
       /\ Stash =>
             /\ last'.ok
             /\ stash' = [has |-> TRUE, tree |-> build_tree_from_dir(wd)]
       /\ (last'.op \notin {"stash", "pop_stash"}) => stash' = stash
       /\ (PopStash /\ has_stash(St)) =>
             /\ last'.ok
             /\ pop_stash(St).ret = TRUE
             /\ build_tree_from_dir(wd') = stash.tree
             /\ stash' = NoStash]_vars

\* a stash has replaced another tree in the slot
C34_Witness ==
    /\ last.op = "stash" /\ last.ok /\ last.case = "replace"
    /\ has_stash(St)
    /\ stash.tree = build_tree_from_dir(wd)

\* the name list_timelines gives the timeline kept in a ref
NameOfRef(ref) ==
    IF ref = MainRef THEN MAIN_BRANCH ELSE StripPrefix(ref, TIMELINE_PREFIX)

\* the commits from which the first-parent walk reaches the root through tip
ChainCommits(s, tip) == {c \in 1..Len(s.commits) : is_ancestor(s, c, tip)}

\* C35: list_timelines lists one entry per timeline ref, and the
\* snapshot_count of each is the number of commits on the first-parent chain
\* from that ref's tip down to the root.
C35_SnapshotCount ==
    /\ Len(list_timelines(St)) = Cardinality(TimelineRefs(St))
    /\ {<<list_timelines(St)[i].name, list_timelines(St)[i].snapshot_count>> :
           i \in 1..Len(list_timelines(St))}
         = {<<NameOfRef(r), Cardinality(ChainCommits(St, refs[r]))>> : r \in TimelineRefs(St)}

\* three timelines are listed, main, a created one and a fork, not all of
\* one length, while HEAD is detached
C35_Witness ==
    /\ Len(list_timelines(St)) = 3
    /\ \E i, j \in 1..3 :
          list_timelines(St)[i].snapshot_count # list_timelines(St)[j].snapshot_count
    /\ \E i \in 1..3 : list_timelines(St)[i].name = ForkSlug(now)
    /\ ~HEAD.sym

\* the commits reached by first-parent walks from the tips of the timeline
\* refs and from prev_tip
ReachableCommits(s) ==
    UNION {ChainCommits(s, s.refs[r]) : r \in TimelineRefs(s)}
        \cup (IF load_prev_tip(s) # None THEN ChainCommits(s, load_prev_tip(s)) ELSE {})

\* whether no two nodes carry the same commit id
DistinctIds(nodes) ==
    \A j, k \in 1..Len(nodes) : nodes[j].id = nodes[k].id => j = k

\* C36: get_timeline_graph holds each commit id at most once, and its nodes
\* are exactly the commits reachable by first-parent walks from the tip of
\* some timeline or from prev_tip.
C36_GraphNodes ==
    /\ DistinctIds(get_timeline_graph(St))
    /\ NodeIds(get_timeline_graph(St)) = ReachableCommits(St)

\* C37: when the first read of prev-tip in commit_snapshot finds a value, the
\* second read, at the fork step, finds the same value, whatever other
\* commands run in between.
C37_SecondReadSame ==
    [][\A p \in Slots :
          (inflight[p].pc = "fork" /\ inflight'[p] = Idle) =>
              load_prev_tip(St) = inflight[p].arg.prev_tip]_vars

\* C38: checkout_version, stash_working_tree and pop_stash leave HEAD, every
\* ref, the label table, prev_tip and the commits as they were, whether they
\* succeed or fail; stash_working_tree leaves the folder as it was too.
C38_FolderOpsFrame ==
    [][/\ \A c \in AnyIdStrings :
             Checkout(c) => UNCHANGED <<HEAD, refs, labels, prev_tip, commits>>
       /\ Stash => UNCHANGED <<HEAD, refs, labels, prev_tip, commits, wd>>
       /\ PopStash => UNCHANGED <<HEAD, refs, labels, prev_tip, commits>>]_vars

\* a checkout has replaced the folder at a rewound position on a created
\* timeline, with a full stash slot: the head commit is not what the folder shows
C38_Witness ==
    /\ last.op = "checkout" /\ last.ok /\ last.case = "replace"
    /\ is_rewound(St)
    /\ HEAD.sym /\ HEAD.name # MainRef
    /\ labels # [r \in {} |-> <<>>]
    /\ has_stash(St)
    /\ has_unsaved_changes(St)

\* the hidden entries of a folder, at every depth, each with its path
RECURSIVE HiddenEntries(_, _)
HiddenEntries(dir, path) ==
    UNION {IF IsHidden(n) THEN {<<path \o <<n>>, dir[n]>>}
           ELSE IF dir[n].kind = "dir" THEN HiddenEntries(dir[n].ents, path \o <<n>>)
           ELSE {} : n \in DOMAIN dir}

\* whether a tree holds an entry with a hidden name, at any depth
RECURSIVE TreeHasHidden(_)
TreeHasHidden(tree) ==
    \E n \in DOMAIN tree :
        IsHidden(n) \/ (tree[n].mode = "tree" /\ TreeHasHidden(tree[n].oid))

\* C39: no tree built from the folder holds a hidden entry at any depth (the
\* trees of the commits, of the stash slot and of the folder as it is), and
\* checkout_version, navigate_to_snapshot, switch_timeline, restore_version
\* and pop_stash leave every hidden entry of the folder as it was, at the
\* top level and inside visible directories.
C39_HiddenUntouched ==
    [][/\ ~TreeHasHidden(build_tree_from_dir(wd'))
       /\ \A i \in 1..Len(commits') : ~TreeHasHidden(commits'[i].tree)
       /\ ~TreeHasHidden(stash'.tree)
       /\ last'.op \in {"checkout", "navigate", "switch_timeline", "restore", "pop_stash"} =>
             HiddenEntries(wd', <<>>) = HiddenEntries(wd, <<>>)]_vars

\* C40: the names list_timelines returns are pairwise distinct, and the ref
\* each name resolves to in switch_timeline, navigate_to_snapshot and
\* get_timeline_graph (for a name other than main, in delete_timeline) is
\* the ref the entry was listed from: every timeline ref is reached by its
\* listed name, and the snapshot_count listed under a name is the length of
\* the chain of the ref the name resolves to.
C40_SlugsResolve ==
    /\ \A i, j \in 1..Len(list_timelines(St)) :
          list_timelines(St)[i].name = list_timelines(St)[j].name => i = j
    /\ \A r \in TimelineRefs(St) :
          /\ RefOfName(NameOfRef(r)) = r
          /\ r # MainRef => TIMELINE_PREFIX \o NameOfRef(r) = r
    /\ \A i \in 1..Len(list_timelines(St)) :
          list_timelines(St)[i].snapshot_count =
              count_commits_on_ref(St, RefOfName(list_timelines(St)[i].name))

====
